---- MODULE Spec2Model ----
(***************************************************************************)
(* Pit stop video analysis: the two entry points of video_analyzer.py      *)
(* (analyze_video, analyze_video_with_debug) and the call made by app.py,  *)
(* as a state machine over a decoded video.                                *)
(*                                                                         *)
(* A video is a sequence of frames of one size with a frame rate.  Pixels  *)
(* are BGR triples.  Python indices are 0-based; the sequences here are    *)
(* 1-based, so Python's frame[y][x] is pixels[y + 1][x + 1].               *)
(* A float quotient a / b is kept exact as the record [num |-> a,          *)
(* den |-> b].                                                             *)
(***************************************************************************)
EXTENDS Integers, Sequences, FiniteSets, TLC

(***************************************************************************)
(* Bounds of the model.                                                    *)
(***************************************************************************)
MaxFrames == 5

(***************************************************************************)
(* Program constants.                                                      *)
(***************************************************************************)
None == -1
NoFrame == <<>>
MOTION_THRESHOLD == 5
ThreshCutoff == 25
ThreshMax == 255
KernelRadius == 10
RectThickness == 2
roi_percentage == <<35, 65, 25, 75>>
ROI_COLOR == <<0, 255, 0>>
TEXT_COLOR == <<255, 255, 255>>
STATUS_MOVING_COLOR == <<0, 0, 255>>
STATUS_STATIONARY_COLOR == <<0, 255, 0>>

(***************************************************************************)
(* The inputs: frame contents, sizes and frame rates.                      *)
(***************************************************************************)
Patterns == {"dark", "dim", "bright"}

Level(p) == CASE p = "dark" -> 0 [] p = "dim" -> 20 [] p = "bright" -> 255

Sizes == {[w |-> 2, h |-> 2], [w |-> 3, h |-> 3], [w |-> 10, h |-> 16]}

FpsSet == {0, 30}

RECURSIVE SeqsUpTo(_, _)
SeqsUpTo(S, n) ==
    IF n = 0 THEN {<<>>}
    ELSE LET shorter == SeqsUpTo(S, n - 1)
         IN shorter \cup {Append(s, x) : s \in {t \in shorter : Len(t) = n - 1}, x \in S}

(* A numpy array holds its values: an image is computed once, when the    *)
(* operation that returns it runs, and not again each time a pixel is read. *)
Array(img) == IF img = img THEN img ELSE img

(* Frames that are not uniform: a black frame with one grey column, at    *)
(* x = 4 with level 200 ("stripe") or at x = 3 with level 100 ("faint").   *)
Shade(p, x, y) ==
    CASE p = "stripe" -> (IF x = 4 THEN 200 ELSE 0)
      [] p = "faint" -> (IF x = 3 THEN 100 ELSE 0)
      [] OTHER -> Level(p)

(* A decoded frame of w x h pixels with content p, as BGR.                  *)
Frame(p, w, h) ==
    Array([y \in 1..h |-> [x \in 1..w |->
        <<Shade(p, x - 1, y - 1), Shade(p, x - 1, y - 1), Shade(p, x - 1, y - 1)>>]])

(* The frame cap.read() decodes at 1-based position i of the video.         *)
Decode(v, i) == Frame(v.frames[i], v.w, v.h)

(***************************************************************************)
(* Region of interest: int(frame_height * 0.35) and so on.  The fractions  *)
(* are in hundredths; int() truncates, and for the sizes of the model the  *)
(* truncated float product equals the exact quotient.                      *)
(***************************************************************************)
PixelRegion(w, h, pct) ==
    << (h * pct[1]) \div 100, (h * pct[2]) \div 100,
       (w * pct[3]) \div 100, (w * pct[4]) \div 100 >>

(* frame[roi[0]:roi[1], roi[2]:roi[3]]                                     *)
Crop(pixels, roi) ==
    Array([r \in 1..(roi[2] - roi[1]) |->
        [c \in 1..(roi[4] - roi[3]) |-> pixels[roi[1] + r][roi[3] + c]]])

IsEmpty(img) == Len(img) = 0 \/ Len(img[1]) = 0

(***************************************************************************)
(* Preprocessing: cv2.cvtColor(.., COLOR_BGR2GRAY) and                     *)
(* cv2.GaussianBlur(.., (21, 21), 0), in OpenCV's 8-bit fixed point.       *)
(***************************************************************************)
cvtColor(img) ==
    Array([r \in 1..Len(img) |->
        [c \in 1..Len(img[1]) |->
            (img[r][c][1] * 1868 + img[r][c][2] * 9617 + img[r][c][3] * 4899 + 8192) \div 16384]])

(* The 21-tap Gaussian (sigma 0.3 * ((21 - 1) * 0.5 - 1) + 0.8 = 3.5) in    *)
(* 1/256 units, by |offset|; the taps sum to 256.  The two passes are       *)
(* rounded once, at the end.                                                *)
GaussKernel == <<30, 28, 25, 20, 15, 11, 7, 4, 2, 1, 0>>

Abs(x) == IF x < 0 THEN -x ELSE x

(* BORDER_REFLECT_101: 1-based index i of a line of n pixels.               *)
Reflect(i, n) ==
    IF n = 1 THEN 1
    ELSE LET p == 2 * (n - 1)
             j == (i - 1) % p
         IN IF j < n THEN j + 1 ELSE p - j + 1

RECURSIVE RowTaps(_, _, _, _)
RowTaps(line, c, d, n) ==
    IF d > KernelRadius THEN 0
    ELSE GaussKernel[Abs(d) + 1] * line[Reflect(c + d, n)] + RowTaps(line, c, d + 1, n)

RECURSIVE ColTaps(_, _, _, _, _)
ColTaps(rows, r, c, d, n) ==
    IF d > KernelRadius THEN 0
    ELSE GaussKernel[Abs(d) + 1] * rows[Reflect(r + d, n)][c] + ColTaps(rows, r, c, d + 1, n)

GaussianBlur(img) ==
    LET h == Len(img)
        w == Len(img[1])
        rows == Array([r \in 1..h |-> [c \in 1..w |-> RowTaps(img[r], c, -KernelRadius, w)]])
    IN Array([r \in 1..h |-> [c \in 1..w |->
            (ColTaps(rows, r, c, -KernelRadius, h) + 32768) \div 65536]])

(***************************************************************************)
(* Motion score: absdiff, threshold(.., 25, 255, THRESH_BINARY), then      *)
(* (np.sum(thresh) / 255) / (rows * cols) * 100.                           *)
(***************************************************************************)
absdiff(a, b) ==
    Array([r \in 1..Len(a) |-> [c \in 1..Len(a[1]) |-> Abs(a[r][c] - b[r][c])]])

threshold(img, thresh, maxval) ==
    Array([r \in 1..Len(img) |-> [c \in 1..Len(img[1]) |->
        IF img[r][c] > thresh THEN maxval ELSE 0]])

RECURSIVE SumLine(_, _)
SumLine(line, c) == IF c > Len(line) THEN 0 ELSE line[c] + SumLine(line, c + 1)

RECURSIVE SumImage(_, _)
SumImage(img, r) == IF r > Len(img) THEN 0 ELSE SumLine(img[r], 1) + SumImage(img, r + 1)

(* MotionScore without the division of the sum by 255.                      *)
MotionScore_SumOfThresh(prev_frame, gray) ==
    LET frame_delta == absdiff(prev_frame, gray)
        thresh == threshold(frame_delta, ThreshCutoff, ThreshMax)
    IN [num |-> SumImage(thresh, 1) * 100,
        den |-> Len(thresh) * Len(thresh[1])]

MotionScore(prev_frame, gray) ==
    LET frame_delta == absdiff(prev_frame, gray)
        thresh == threshold(frame_delta, ThreshCutoff, ThreshMax)
    IN [num |-> (SumImage(thresh, 1) \div 255) * 100,
        den |-> Len(thresh) * Len(thresh[1])]

(* motion_score < MOTION_THRESHOLD                                          *)
LowMotion(motion_score) == motion_score.num < MOTION_THRESHOLD * motion_score.den

(***************************************************************************)
(* cv2.rectangle(frame, pt1, pt2, color, thickness) draws the outline in   *)
(* place: every pixel within thickness / 2 of one of the four edges, so a  *)
(* thickness of 2 colours each edge's own line and one line on each side.  *)
(* pt1 = (roi[2], roi[0]) and pt2 = (roi[3], roi[1]) as (x, y), 0-based:   *)
(* the top and left edges run through the first row and column of the      *)
(* region that is cropped.                                                  *)
(***************************************************************************)
OnOutline(x, y, roi, thickness) ==
    LET half == thickness \div 2
        t == roi[1]
        b == roi[2]
        l == roi[3]
        r == roi[4]
    IN \/ /\ Abs(x - l) <= half \/ Abs(x - r) <= half
          /\ t - half <= y /\ y <= b + half
       \/ /\ Abs(y - t) <= half \/ Abs(y - b) <= half
          /\ l - half <= x /\ x <= r + half

rectangle(pixels, roi, color, thickness) ==
    Array([r \in 1..Len(pixels) |-> [c \in 1..Len(pixels[1]) |->
        IF OnOutline(c - 1, r - 1, roi, thickness) THEN color ELSE pixels[r][c]]])

(***************************************************************************)
(* Preprocessing of a cropped region: grey, then blurred.  The regions the *)
(* entry points crop from the frames of the model, with and without the    *)
(* outline, are few, and each is preprocessed once.                        *)
(***************************************************************************)
Regions ==
    LET frames == {Frame(p, sz.w, sz.h) : p \in Patterns \cup {"stripe", "faint"}, sz \in Sizes}
        crops == {Crop(f, PixelRegion(Len(f[1]), Len(f), roi_percentage)) : f \in frames}
                 \cup {Crop(rectangle(f, PixelRegion(Len(f[1]), Len(f), roi_percentage),
                                      ROI_COLOR, RectThickness),
                             PixelRegion(Len(f[1]), Len(f), roi_percentage)) : f \in frames}
    IN {roi_frame \in crops : ~IsEmpty(roi_frame)}

Preprocessed == Array([roi_frame \in Regions |-> GaussianBlur(cvtColor(roi_frame))])

Preprocess(roi_frame) == Preprocessed[roi_frame]

(***************************************************************************)
(* Results.                                                                *)
(***************************************************************************)
NoValue == <<>>
Returned(q) == <<q>>
Quotient(n, d) == [num |-> n, den |-> d]

(***************************************************************************)
(* State.                                                                  *)
(*   video   the file behind video_path: frames are the frames cap.read()  *)
(*           delivers before its first failure (the end of the file, or a  *)
(*           frame that cannot be decoded), rest what lies behind it       *)
(*   client  who calls: a script calling analyze_video and then            *)
(*           analyze_video_with_debug as they are declared, or app.py      *)
(*   av      the locals of one call of analyze_video                       *)
(*   avd     the locals of one call of analyze_video_with_debug; out is    *)
(*           the cv2.VideoWriter, as the calls made on it: the frames      *)
(*           passed to out.write() and the out.release() calls             *)
(* transitions, scores, reads and against are history: the transition      *)
(* records, the motion scores computed so far (scores[k] is the score of   *)
(* frame k), the number of cap.read() calls made, and the prev_frame the   *)
(* last score was computed against.  pos is the source's position: the     *)
(* number of frames read from it.                                          *)
(***************************************************************************)
VARIABLES video, client, av, avd

vars == <<video, client, av, avd>>

Finished == {"returned", "raised"}

(* 150 identical frames at 30 fps.                                           *)
StillVideo ==
    [openable |-> TRUE, fps |-> 30, w |-> 10, h |-> 16,
     frames |-> [i \in 1..150 |-> "dark"], rest |-> <<>>]

(* 120 frames at 30 fps: every frame differs from the one before it on      *)
(* frames 1-29 and 90-119, and frames 30-89 equal frame 29.                 *)
PitStopVideo ==
    [openable |-> TRUE, fps |-> 30, w |-> 10, h |-> 16,
     frames |-> [i \in 1..120 |->
                    IF 30 <= i - 1 /\ i - 1 <= 89 THEN "bright"
                    ELSE IF (i - 1) % 2 = 0 THEN "dark" ELSE "bright"],
     rest |-> <<>>]

(* Files with a frame that cannot be decoded: cap.read() delivers frames,   *)
(* fails once, and would deliver rest if it were called again.              *)
DamagedVideos ==
    {[openable |-> TRUE, fps |-> 30, w |-> 10, h |-> 16, frames |-> fr, rest |-> <<p>>] :
        fr \in SeqsUpTo({"dark", "bright"}, MaxFrames - 1), p \in {"dark", "bright"}}

(* Short videos with frames that are not uniform.                           *)
StripeVideos ==
    {[openable |-> TRUE, fps |-> 30, w |-> 10, h |-> 16, frames |-> fr, rest |-> <<>>] :
        fr \in {t \in SeqsUpTo({"dark", "stripe", "faint", "bright"}, 3) : Len(t) >= 2}}

Videos ==
    {[openable |-> TRUE, fps |-> f, w |-> sz.w, h |-> sz.h, frames |-> fr, rest |-> <<>>] :
        f \in FpsSet, sz \in Sizes, fr \in SeqsUpTo(Patterns, MaxFrames)}
    \cup {[openable |-> FALSE, fps |-> 0, w |-> 0, h |-> 0, frames |-> <<>>, rest |-> <<>>]}
    \cup {StillVideo, PitStopVideo}
    \cup DamagedVideos
    \cup StripeVideos

Clients == {"script", "app"}

(* The positional arguments each caller passes.                             *)
Args_av == <<"video_path">>
Args_avd(c) ==
    IF c = "app"
    THEN <<"video_path", "debug_output_path", "car_roi_percentage", "sign_roi_percentage", "thresholds">>
    ELSE <<"video_path", "output_path">>

(* The car region app.py passes: its sliders' defaults, in hundredths.      *)
car_roi_percentage == <<4, 45, 25, 75>>

Params_av == <<"video_path">>
Params_avd == <<"video_path", "output_path">>

(* Python binds positional arguments to parameters without defaults.        *)
Binds(params, args) == Len(args) = Len(params)

Locals ==
    [pc |-> "idle", error |-> "", result |-> NoValue,
     cap |-> "none", pos |-> 0, reads |-> 0, ret |-> FALSE,
     fps |-> 0, roi |-> <<0, 0, 0, 0>>,
     prev_frame |-> NoFrame, roi_frame |-> NoFrame, gray |-> NoFrame,
     against |-> NoFrame, frame_delta |-> NoFrame, thresh |-> NoFrame,
     stationary_start_frame |-> None, stationary_end_frame |-> None,
     is_stationary |-> FALSE, frame_number |-> 0,
     motion_score |-> Quotient(0, 1),
     out |-> [state |-> "none", frames |-> <<>>, releases |-> 0],
     transitions |-> <<>>, scores |-> <<>>]

Init ==
    /\ video \in Videos
    /\ client \in Clients
    /\ av = Locals
    /\ avd = Locals

(***************************************************************************)
(* analyze_video                                                           *)
(***************************************************************************)
(* Lines 18-42: open the source, check the frame rate, resolve the region. *)
AV_Enter(s, v) ==
    IF ~Binds(Params_av, Args_av)
    THEN [s EXCEPT !.pc = "raised", !.error = "TypeError"]
    ELSE IF ~v.openable
    THEN [s EXCEPT !.pc = "raised", !.error = "open", !.cap = "closed"]
    ELSE IF v.fps = 0
    THEN [s EXCEPT !.pc = "raised", !.error = "fps", !.cap = "open"]
    ELSE [s EXCEPT !.pc = "loop", !.cap = "open", !.fps = v.fps,
                   !.roi = PixelRegion(v.w, v.h, roi_percentage)]

AV_Call ==
    /\ client = "script"
    /\ av.pc = "idle"
    /\ av' = AV_Enter(av, video)
    /\ UNCHANGED <<video, client, avd>>

(* Lines 58-65: the phase decision on one scored frame; pc "finish" is the break. *)
AV_Step(s, motion_score) ==
    IF LowMotion(motion_score)
    THEN IF ~s.is_stationary
         THEN [s EXCEPT !.is_stationary = TRUE,
                        !.stationary_start_frame = s.frame_number,
                        !.transitions = Append(@, [kind |-> "start", frame |-> s.frame_number])]
         ELSE s
    ELSE IF s.is_stationary
         THEN [s EXCEPT !.stationary_end_frame = s.frame_number,
                        !.transitions = Append(@, [kind |-> "end", frame |-> s.frame_number]),
                        !.pc = "finish"]
         ELSE s

(* Lines 49-68: one decoded frame.                                          *)
AV_Frame(s, frame) ==
    LET roi_frame == Crop(frame, s.roi)
    IN IF IsEmpty(roi_frame)
       THEN [s EXCEPT !.roi_frame = roi_frame, !.pc = "raised", !.error = "cv2.error"]
       ELSE LET gray == Preprocess(roi_frame)
                scored == IF s.prev_frame = NoFrame
                          THEN s
                          ELSE LET frame_delta == absdiff(s.prev_frame, gray)
                                   motion_score == MotionScore(s.prev_frame, gray)
                               IN AV_Step([s EXCEPT !.against = s.prev_frame,
                                                    !.frame_delta = frame_delta,
                                                    !.thresh = threshold(frame_delta, ThreshCutoff, ThreshMax),
                                                    !.motion_score = motion_score,
                                                    !.scores = Append(@, motion_score)],
                                          motion_score)
            IN IF scored.pc = "finish"
               THEN [scored EXCEPT !.roi_frame = roi_frame, !.gray = gray]
               ELSE [scored EXCEPT !.roi_frame = roi_frame, !.gray = gray,
                                   !.prev_frame = gray,
                                   !.frame_number = @ + 1]

(* Lines 44-68: one turn of the while loop.                                 *)
AV_Turn(s, v) ==
    IF s.pos >= Len(v.frames)
    THEN [s EXCEPT !.ret = FALSE, !.reads = @ + 1, !.pc = "finish"]
    ELSE AV_Frame([s EXCEPT !.ret = TRUE, !.reads = @ + 1, !.pos = @ + 1],
                  Decode(v, s.pos + 1))

AV_Loop ==
    /\ av.pc = "loop"
    /\ av' = AV_Turn(av, video)
    /\ UNCHANGED <<video, client, avd>>

(* Lines 72-77.                                                             *)
AV_Result(s) ==
    IF s.stationary_start_frame # None /\ s.stationary_end_frame # None
    THEN [s EXCEPT !.pc = "returned",
                   !.result = Returned(Quotient(s.stationary_end_frame - s.stationary_start_frame, s.fps))]
    ELSE IF s.stationary_start_frame # None
    THEN [s EXCEPT !.pc = "returned",
                   !.result = Returned(Quotient(s.frame_number - s.stationary_start_frame, s.fps))]
    ELSE [s EXCEPT !.pc = "raised", !.error = "no stationary period"]

(* Lines 70-77: cap.release(), then the result.                             *)
AV_Leave(s) == AV_Result([s EXCEPT !.cap = "released"])

AV_Finish ==
    /\ av.pc = "finish"
    /\ av' = AV_Leave(av)
    /\ UNCHANGED <<video, client, avd>>

(***************************************************************************)
(* analyze_video_with_debug                                                *)
(***************************************************************************)
(* Lines 80, 91-123: bind the arguments, open the source, create the sink. *)
(* AVD_Enter creating the sink before it looks at the source.               *)
AVD_Enter_SinkFirst(s, v, c) ==
    IF ~Binds(Params_avd, Args_avd(c))
    THEN [s EXCEPT !.pc = "raised", !.error = "TypeError"]
    ELSE IF ~v.openable
    THEN [s EXCEPT !.pc = "raised", !.error = "open", !.cap = "closed",
                   !.out.state = "open"]
    ELSE [s EXCEPT !.pc = "loop", !.cap = "open", !.fps = v.fps,
                   !.out.state = "open",
                   !.roi = PixelRegion(v.w, v.h, roi_percentage)]

AVD_Enter(s, v, c) ==
    IF ~Binds(Params_avd, Args_avd(c))
    THEN [s EXCEPT !.pc = "raised", !.error = "TypeError"]
    ELSE IF ~v.openable
    THEN [s EXCEPT !.pc = "raised", !.error = "open", !.cap = "closed"]
    ELSE [s EXCEPT !.pc = "loop", !.cap = "open", !.fps = v.fps,
                   !.out.state = "open",
                   !.roi = PixelRegion(v.w, v.h, roi_percentage)]

AVD_Call ==
    /\ avd.pc = "idle"
    /\ client = "app" \/ av.pc \in Finished
    /\ avd' = AVD_Enter(avd, video, client)
    /\ UNCHANGED <<video, client, av>>

(* AVD_Step recording a stationary end on every frame with motion.          *)
AVD_Step_LastEnd(s, motion_score) ==
    IF LowMotion(motion_score)
    THEN IF ~s.is_stationary
         THEN [s EXCEPT !.is_stationary = TRUE,
                        !.stationary_start_frame = s.frame_number,
                        !.transitions = Append(@, [kind |-> "start", frame |-> s.frame_number])]
         ELSE s
    ELSE IF s.is_stationary
         THEN [s EXCEPT !.stationary_end_frame = s.frame_number,
                        !.transitions = Append(@, [kind |-> "end", frame |-> s.frame_number])]
         ELSE s

(* AVD_Step with the second test made an if of its own, not an else.        *)
AVD_Step_BothTests(s, motion_score) ==
    LET t == IF LowMotion(motion_score) /\ ~s.is_stationary
             THEN [s EXCEPT !.is_stationary = TRUE,
                            !.stationary_start_frame = s.frame_number,
                            !.transitions = Append(@, [kind |-> "start", frame |-> s.frame_number])]
             ELSE s
    IN IF t.is_stationary /\ t.stationary_end_frame = None
       THEN [t EXCEPT !.stationary_end_frame = t.frame_number,
                      !.transitions = Append(@, [kind |-> "end", frame |-> t.frame_number])]
       ELSE t

(* AVD_Step leaving the stationary state when it records the end.           *)
AVD_Step_Reenters(s, motion_score) ==
    IF LowMotion(motion_score)
    THEN IF ~s.is_stationary
         THEN [s EXCEPT !.is_stationary = TRUE,
                        !.stationary_start_frame = s.frame_number,
                        !.transitions = Append(@, [kind |-> "start", frame |-> s.frame_number])]
         ELSE s
    ELSE IF s.is_stationary /\ s.stationary_end_frame = None
         THEN [s EXCEPT !.stationary_end_frame = s.frame_number,
                        !.is_stationary = FALSE,
                        !.transitions = Append(@, [kind |-> "end", frame |-> s.frame_number])]
         ELSE s

(* Lines 142-148: the phase decision on one scored frame.                   *)
AVD_Step(s, motion_score) ==
    IF LowMotion(motion_score)
    THEN IF ~s.is_stationary
         THEN [s EXCEPT !.is_stationary = TRUE,
                        !.stationary_start_frame = s.frame_number,
                        !.transitions = Append(@, [kind |-> "start", frame |-> s.frame_number])]
         ELSE s
    ELSE IF s.is_stationary /\ s.stationary_end_frame = None
         THEN [s EXCEPT !.stationary_end_frame = s.frame_number,
                        !.transitions = Append(@, [kind |-> "end", frame |-> s.frame_number])]
         ELSE s

(* Lines 151-156: the score and status texts put on the frame.              *)
StatusTexts(s) ==
    << [text |-> "Motion Score", value |-> s.motion_score, org |-> <<10, 30>>,
        color |-> TEXT_COLOR],
       [text |-> "Status",
        value |-> IF s.is_stationary THEN "Stationary" ELSE "Moving",
        org |-> <<10, 70>>,
        color |-> IF s.is_stationary THEN STATUS_STATIONARY_COLOR ELSE STATUS_MOVING_COLOR] >>

(* Lines 159-162: the running stationary time.                              *)
TimerText(s) ==
    [text |-> "Stationary Time",
     value |-> Quotient(s.frame_number - s.stationary_start_frame, s.fps),
     org |-> <<10, 110>>, color |-> TEXT_COLOR]

(* Lines 130-166: one decoded frame.  The rectangle is drawn on the frame   *)
(* itself, and roi_frame is a view of that frame.                          *)
AVD_Frame(s, frame) ==
    LET drawn == rectangle(frame, s.roi, ROI_COLOR, RectThickness)
        roi_frame == Crop(drawn, s.roi)
    IN IF IsEmpty(roi_frame)
       THEN [s EXCEPT !.roi_frame = roi_frame, !.pc = "raised", !.error = "cv2.error"]
       ELSE LET gray == Preprocess(roi_frame)
                scored == IF s.prev_frame = NoFrame
                          THEN s
                          ELSE LET frame_delta == absdiff(s.prev_frame, gray)
                                   motion_score == MotionScore(s.prev_frame, gray)
                               IN AVD_Step([s EXCEPT !.against = s.prev_frame,
                                                     !.frame_delta = frame_delta,
                                                     !.thresh = threshold(frame_delta, ThreshCutoff, ThreshMax),
                                                     !.motion_score = motion_score,
                                                     !.scores = Append(@, motion_score)],
                                           motion_score)
                texts == IF scored.is_stationary
                         THEN Append(StatusTexts(scored), TimerText(scored))
                         ELSE StatusTexts(scored)
            IN IF scored.is_stationary /\ scored.fps = 0
               THEN [scored EXCEPT !.roi_frame = roi_frame, !.gray = gray,
                                   !.pc = "raised", !.error = "ZeroDivisionError"]
               ELSE [scored EXCEPT !.roi_frame = roi_frame, !.gray = gray,
                                   !.out.frames = Append(@, [pixels |-> drawn, texts |-> texts]),
                                   !.prev_frame = gray,
                                   !.frame_number = @ + 1]

(* AVD_Turn passing over a frame that cannot be decoded and reading on.     *)
AVD_Turn_ReadsOn(s, v) ==
    IF s.pos >= Len(v.frames) + Len(v.rest)
    THEN [s EXCEPT !.ret = FALSE, !.reads = @ + 1, !.pc = "finish"]
    ELSE AVD_Frame([s EXCEPT !.ret = TRUE, !.reads = @ + 1, !.pos = @ + 1],
                   Decode([v EXCEPT !.frames = v.frames \o v.rest], s.pos + 1))

(* Lines 125-166: one turn of the while loop.                               *)
AVD_Turn(s, v) ==
    IF s.pos >= Len(v.frames)
    THEN [s EXCEPT !.ret = FALSE, !.reads = @ + 1, !.pc = "finish"]
    ELSE AVD_Frame([s EXCEPT !.ret = TRUE, !.reads = @ + 1, !.pos = @ + 1],
                   Decode(v, s.pos + 1))

AVD_Loop ==
    /\ avd.pc = "loop"
    /\ avd' = AVD_Turn(avd, video)
    /\ UNCHANGED <<video, client, av>>

(* AVD_Result failing, as analyze_video does, when no start was recorded.   *)
AVD_Result_Raises(s) ==
    IF s.stationary_start_frame # None /\ s.stationary_end_frame # None
    THEN [s EXCEPT !.pc = "returned",
                   !.result = Returned(Quotient(s.stationary_end_frame - s.stationary_start_frame, s.fps))]
    ELSE IF s.stationary_start_frame # None
    THEN [s EXCEPT !.pc = "returned",
                   !.result = Returned(Quotient(s.frame_number - s.stationary_start_frame, s.fps))]
    ELSE [s EXCEPT !.pc = "raised", !.error = "no stationary period"]

(* Lines 171-177.                                                           *)
AVD_Result(s) ==
    IF s.stationary_start_frame # None /\ s.fps = 0
    THEN [s EXCEPT !.pc = "raised", !.error = "ZeroDivisionError"]
    ELSE IF s.stationary_start_frame # None /\ s.stationary_end_frame # None
    THEN [s EXCEPT !.pc = "returned",
                   !.result = Returned(Quotient(s.stationary_end_frame - s.stationary_start_frame, s.fps))]
    ELSE IF s.stationary_start_frame # None
    THEN [s EXCEPT !.pc = "returned",
                   !.result = Returned(Quotient(s.frame_number - s.stationary_start_frame, s.fps))]
    ELSE [s EXCEPT !.pc = "returned", !.result = Returned(Quotient(0, 1))]

(* Lines 168-177: cap.release(), out.release(), then the result.            *)
AVD_Leave(s) ==
    AVD_Result([s EXCEPT !.cap = "released", !.out.state = "released",
                         !.out.releases = @ + 1])

AVD_Finish ==
    /\ avd.pc = "finish"
    /\ avd' = AVD_Leave(avd)
    /\ UNCHANGED <<video, client, av>>

(***************************************************************************)
(* A whole call of each entry point on a video, from fresh locals.         *)
(***************************************************************************)
RECURSIVE AV_Turns(_, _)
AV_Turns(s, v) == IF s.pc = "loop" THEN AV_Turns(AV_Turn(s, v), v) ELSE s

analyze_video(v) ==
    LET left == AV_Turns(AV_Enter(Locals, v), v)
    IN IF left.pc = "finish" THEN AV_Leave(left) ELSE left

RECURSIVE AVD_Turns(_, _)
AVD_Turns(s, v) == IF s.pc = "loop" THEN AVD_Turns(AVD_Turn(s, v), v) ELSE s

analyze_video_with_debug(v, c) ==
    LET left == AVD_Turns(AVD_Enter(Locals, v, c), v)
    IN IF left.pc = "finish" THEN AVD_Leave(left) ELSE left

Next == AV_Call \/ AV_Loop \/ AV_Finish \/ AVD_Call \/ AVD_Loop \/ AVD_Finish

Spec == Init /\ [][Next]_vars

(***************************************************************************)
(* Properties.                                                             *)
(***************************************************************************)
Calls == {av, avd}

(* The source was read until a read failed.                                 *)
EndOfStream(e) == e.reads > 0 /\ ~e.ret

IsZero(result) == result # NoValue /\ result[1].num = 0

(* s is the first frame whose score is below the threshold, and r the first *)
(* frame after s whose score is not.                                        *)
FirstStop(scores, s) ==
    /\ LowMotion(scores[s])
    /\ \A k \in 1..(s - 1) : ~LowMotion(scores[k])

FirstResume(scores, s, r) ==
    /\ s < r
    /\ ~LowMotion(scores[r])
    /\ \A k \in (s + 1)..(r - 1) : LowMotion(scores[k])

(* C1: for the source of 150 identical frames at 30 fps, analyze_video     *)
(* fails with the no-stationary-period error and analyze_video_with_debug  *)
(* returns a zero duration.                                                *)
C1_StillVideoHasNoStationaryPeriod ==
    (video = StillVideo /\ client = "script") =>
        /\ av.pc \in Finished => (av.pc = "raised" /\ av.error = "no stationary period")
        /\ avd.pc \in Finished => (avd.pc = "returned" /\ IsZero(avd.result))

(* C2: when the video ends with a stationary start recorded and no end,    *)
(* each entry point reports (N - 1 - start) / fps, N the number of frames: *)
(* the interval is closed at the index of the last processed frame.        *)
C2_OpenIntervalEndsAtLastFrameIndex ==
    \A e \in Calls :
        (/\ e.pc = "returned"
         /\ EndOfStream(e)
         /\ e.stationary_start_frame # None
         /\ e.stationary_end_frame = None)
        => e.result = Returned(Quotient((Len(video.frames) - 1) - e.stationary_start_frame,
                                        video.fps))

(* C3: when s is the first frame where motion stops and r the first later   *)
(* frame where it resumes, each entry point returns exactly (r - s) / fps;  *)
(* the 120-frame pit stop video (stop at 30, resume at 90, 30 fps) gives    *)
(* 2 seconds.                                                               *)
C3_DurationFromFirstStopToFirstResume ==
    \A e \in Calls :
        /\ \A s \in 1..Len(e.scores) : \A r \in 1..Len(e.scores) :
              (e.pc \in Finished /\ FirstStop(e.scores, s) /\ FirstResume(e.scores, s, r))
              => (/\ e.pc = "returned"
                  /\ e.stationary_start_frame = s
                  /\ e.stationary_end_frame = r
                  /\ e.result = Returned(Quotient(r - s, video.fps)))
        /\ (video = PitStopVideo /\ client = "script" /\ e.pc \in Finished)
              => (/\ e.pc = "returned"
                  /\ e.result = Returned(Quotient(90 - 30, 30))
                  /\ e.result[1].num = 2 * e.result[1].den)

C3_Witness ==
    /\ video = PitStopVideo
    /\ av.pc = "returned" /\ avd.pc = "returned"
    /\ FirstStop(av.scores, 30) /\ FirstResume(av.scores, 30, 90)
    /\ FirstStop(avd.scores, 30) /\ FirstResume(avd.scores, 30, 90)
    /\ Len(avd.scores) = 119

(* C4: when the stream ends with no stationary start recorded,             *)
(* analyze_video ends with an error and no number, and                     *)
(* analyze_video_with_debug returns 0.0 without raising, with one frame    *)
(* written per frame of the video and the debug sink released.             *)
C4_NoStationaryPeriod ==
    /\ (av.pc \in Finished /\ av.stationary_start_frame = None)
          => (av.pc = "raised" /\ av.error # "" /\ av.result = NoValue)
    /\ (av.pc \in Finished /\ EndOfStream(av) /\ av.stationary_start_frame = None)
          => av.error = "no stationary period"
    /\ (avd.pc \in Finished /\ EndOfStream(avd) /\ avd.stationary_start_frame = None)
          => (/\ avd.pc = "returned"
              /\ avd.error = ""
              /\ avd.result = Returned(Quotient(0, 1))
              /\ Len(avd.out.frames) = Len(video.frames)
              /\ avd.out.state = "released")

C4_Witness ==
    /\ Len(video.frames) >= 3
    /\ av.pc = "raised" /\ av.error = "no stationary period"
    /\ avd.pc = "returned" /\ avd.stationary_start_frame = None
    /\ Len(avd.scores) = Len(video.frames) - 1

(* C5: on every exit of either entry point after the source was opened,    *)
(* the source has been released, and so has the debug sink if created.     *)
C5_ReleasedOnEveryExit ==
    \A e \in Calls :
        (e.pc \in Finished /\ e.cap \in {"open", "released"})
        => (/\ e.cap = "released"
            /\ e.out.state # "none" => e.out.state = "released")

(* C6: in analyze_video_with_debug the pixels cropped for the scorer are   *)
(* the pixels read from the source, with no overlay drawn on them.         *)
C6_ScoredPixelsAreSourcePixels ==
    (avd.pc \in {"loop", "finish"} \cup Finished /\ avd.pos > 0)
    => avd.roi_frame = Crop(Decode(video, avd.pos), avd.roi)

(* C7: analyze_video_with_debug writes exactly one frame per frame read,   *)
(* the k-th being the annotated k-th frame of the video, never after the   *)
(* sink's release, and on return the sink has been released exactly once.  *)
C7_OneWrittenFramePerReadFrame ==
    /\ avd.pc \in Finished =>
          /\ Len(avd.out.frames) = avd.pos
          /\ \A k \in 1..Len(avd.out.frames) :
                avd.out.frames[k].pixels
                    = rectangle(Decode(video, k), avd.roi, ROI_COLOR, RectThickness)
    /\ avd.out.state = "released" => avd.pc \in Finished
    /\ avd.pc = "returned" => (avd.out.state = "released" /\ avd.out.releases = 1)

(* C8: no frame index carries two transitions, and the recorded transition *)
(* frames increase strictly: a recorded start is before a recorded end.    *)
C8_TransitionsStrictlyIncrease ==
    \A e \in Calls :
        /\ \A i \in 1..Len(e.transitions) : \A j \in 1..Len(e.transitions) :
              i < j => e.transitions[i].frame < e.transitions[j].frame
        /\ (e.stationary_start_frame # None /\ e.stationary_end_frame # None)
              => e.stationary_start_frame < e.stationary_end_frame
        /\ e.stationary_end_frame # None => e.stationary_start_frame # None

C8_Witness ==
    /\ Len(av.transitions) = 2 /\ Len(avd.transitions) = 2
    /\ av.stationary_end_frame # None /\ avd.stationary_end_frame # None
    /\ Len(avd.scores) > avd.stationary_end_frame

(* C9: the call app.py makes (video, output path, car region, sign region, *)
(* thresholds) is accepted and analysed, and the region used is the one    *)
(* the caller supplied.                                                    *)
C9_CallerConfigurationAccepted ==
    (client = "app" /\ avd.pc \in Finished /\ video.openable)
    => (/\ avd.error # "TypeError"
        /\ avd.roi = PixelRegion(video.w, video.h, car_roi_percentage))

(* C10: the pixel region the entry points compute is inside the frame and  *)
(* not empty: 0 <= top < bottom <= H and 0 <= left < right <= W.           *)
C10_RegionInsideAndNotEmpty ==
    \A e \in Calls :
        (e.pc \in {"loop", "finish", "returned"} /\ video.w > 0 /\ video.h > 0)
        => (/\ 0 <= e.roi[1] /\ e.roi[1] < e.roi[2] /\ e.roi[2] <= video.h
            /\ 0 <= e.roi[3] /\ e.roi[3] < e.roi[4] /\ e.roi[4] <= video.w)

(* C11: when the source cannot be opened, a call of either entry point     *)
(* ends with an error without having read or scored a frame, and           *)
(* analyze_video_with_debug ends without having created or written the     *)
(* debug sink; a call whose arguments bind fails with the open error.      *)
C11_OpenFailureBeforeAnyFrame ==
    \A e \in Calls :
        (~video.openable /\ e.pc # "idle")
        => (/\ e.pc = "raised"
            /\ e.error # ""
            /\ client = "script" => e.error = "open"
            /\ e.result = NoValue
            /\ e.reads = 0 /\ e.pos = 0
            /\ e.scores = <<>> /\ e.transitions = <<>>
            /\ e.out.state = "none" /\ e.out.frames = <<>>)

C11_Witness ==
    /\ ~video.openable
    /\ av.pc = "raised" /\ av.error = "open"
    /\ avd.pc = "raised" /\ avd.error = "open"

(* The video that consists of exactly the frames read before the failure.  *)
EndsAtFailure(v) == [v EXCEPT !.rest = <<>>]

(* What a finished call leaves behind.                                    *)
Outcome(e) ==
    [pc |-> e.pc, error |-> e.error, result |-> e.result,
     stationary_start_frame |-> e.stationary_start_frame,
     stationary_end_frame |-> e.stationary_end_frame,
     scores |-> e.scores, out |-> e.out]

(* C12: the first failed read ends the stream.  After it no read is made, *)
(* so exactly one read fails and no frame behind it is read, scored or    *)
(* written; and on a file with a frame that cannot be decoded each entry  *)
(* point ends as it does on the video made of the frames before that      *)
(* frame: same outcome, same result, same records, same written frames.   *)
C12_FailedReadEndsTheStream ==
    /\ \A e \in Calls :
          /\ EndOfStream(e) => (e.pc # "loop" /\ e.reads = e.pos + 1)
          /\ e.reads <= Len(video.frames) + 1
          /\ e.pos <= Len(video.frames)
          /\ Len(e.scores) <= e.pos /\ Len(e.out.frames) <= e.pos
    /\ (video.rest # <<>> /\ av.pc \in Finished)
          => Outcome(av) = Outcome(analyze_video(EndsAtFailure(video)))
    /\ (video.rest # <<>> /\ avd.pc \in Finished)
          => Outcome(avd) = Outcome(analyze_video_with_debug(EndsAtFailure(video), client))

C12_Witness ==
    /\ video.rest # <<>>
    /\ Len(video.frames) >= 3
    /\ av.pc = "returned" /\ EndOfStream(av)
    /\ avd.pc = "returned" /\ EndOfStream(avd)
    /\ av.stationary_start_frame > 1 /\ avd.stationary_start_frame > 1
    /\ Len(avd.out.frames) = Len(video.frames)

(* C13: with fps > 0, a duration analyze_video returns is strictly         *)
(* positive, and analyze_video_with_debug always returns: a duration that  *)
(* is not negative, and that is 0 only when no stationary start was        *)
(* recorded.                                                               *)
C13_PositiveDurations ==
    video.fps > 0 =>
        /\ av.pc = "returned" => (av.result # NoValue /\ av.result[1].num > 0
                                  /\ av.result[1].den > 0)
        /\ avd.pc \in Finished =>
              /\ avd.pc = "returned"
              /\ avd.result # NoValue
              /\ avd.result[1].num >= 0 /\ avd.result[1].den > 0
              /\ avd.result[1].num = 0 => avd.stationary_start_frame = None

(* The stationary interval is open at frame index i: the start has been    *)
(* recorded, at i or before, and no end has been recorded at i or before.  *)
IntervalOpenAt(e, i) ==
    /\ e.stationary_start_frame # None /\ e.stationary_start_frame <= i
    /\ e.stationary_end_frame = None \/ i < e.stationary_end_frame

(* C14: on every frame analyze_video_with_debug writes, the status label   *)
(* is Stationary exactly while the stationary interval is open, and the    *)
(* running stationary time is drawn exactly then: frames from the recorded *)
(* end on are labelled Moving and carry no timer.                          *)
C14_OverlayFollowsThePhase ==
    \A k \in 1..Len(avd.out.frames) :
        LET texts == avd.out.frames[k].texts
        IN /\ texts[2].value = IF IntervalOpenAt(avd, k - 1) THEN "Stationary" ELSE "Moving"
           /\ (Len(texts) = 3) <=> IntervalOpenAt(avd, k - 1)

(* From the locals s of a call to its locals t one step later, what has    *)
(* been recorded stays as it is, and each transition is recorded once.     *)
RecordsKept(s, t) ==
    /\ s.stationary_start_frame # None
          => t.stationary_start_frame = s.stationary_start_frame
    /\ s.stationary_end_frame # None
          => t.stationary_end_frame = s.stationary_end_frame
    /\ \A i \in 1..Len(s.transitions) :
          Len(t.transitions) >= i /\ t.transitions[i] = s.transitions[i]
    /\ \A i \in 1..Len(t.transitions) : \A j \in 1..Len(t.transitions) :
          i # j => t.transitions[i].kind # t.transitions[j].kind

(* C15: in both entry points a recorded stationary start and a recorded    *)
(* stationary end are never changed by a later frame, and at most one      *)
(* start and one end are recorded in a run, whatever follows: a second     *)
(* low-motion period or a second burst of motion leaves them alone.        *)
C15_FirstOccurrenceOnly ==
    [][RecordsKept(av, av') /\ RecordsKept(avd, avd')]_vars

(* After the recorded end: a second low-motion period, then motion again.  *)
C15_Witness ==
    /\ av.stationary_end_frame = 2
    /\ avd.pc = "returned"
    /\ avd.stationary_start_frame = 1 /\ avd.stationary_end_frame = 2
    /\ Len(avd.scores) = 4
    /\ LowMotion(avd.scores[3]) /\ ~LowMotion(avd.scores[4])

(* C16: every frame read has a motion score and goes through the phase     *)
(* decision, frame 0 included: as many scores as frames processed, and     *)
(* frame 0, whose score is 0 for want of a previous frame, is below the    *)
(* threshold and so is where the stationary start is recorded.             *)
C16_FirstFrameScoredAndStepped ==
    \A e \in Calls :
        (e.pc \in {"loop", "finish", "returned"} /\ e.pos >= 1)
        => (/\ Len(e.scores) = e.pos
            /\ e.stationary_start_frame = 0)

(* 1 at the pixels where the two preprocessed regions differ by more than  *)
(* the cutoff, 0 at the others.                                            *)
ChangedPixels(a, b) ==
    Array([r \in 1..Len(a) |-> [c \in 1..Len(a[1]) |->
        IF Abs(a[r][c] - b[r][c]) > ThreshCutoff THEN 1 ELSE 0]])

(* C17: the motion score an entry point computes from two preprocessed     *)
(* regions of one shape is 100 x (pixels whose absolute difference exceeds *)
(* the cutoff) / (pixels of the region), and lies between 0 and 100.       *)
C17_ScoreIsPercentageOfChangedPixels ==
    \A e \in Calls :
        e.scores # <<>> =>
            LET pixels == Len(e.gray) * Len(e.gray[1])
                changed == SumImage(ChangedPixels(e.against, e.gray), 1)
            IN /\ Len(e.against) = Len(e.gray) /\ Len(e.against[1]) = Len(e.gray[1])
               /\ e.motion_score.den > 0
               /\ e.motion_score.num * pixels = (100 * changed) * e.motion_score.den
               /\ 0 <= e.motion_score.num
               /\ e.motion_score.num <= 100 * e.motion_score.den
               /\ e.scores[Len(e.scores)] = e.motion_score

(* Scores that are neither 0 nor 100, in both entry points.                *)
C17_Witness ==
    /\ av.scores # <<>> /\ avd.scores # <<>>
    /\ \E k \in 1..Len(av.scores) :
          0 < av.scores[k].num /\ av.scores[k].num < 100 * av.scores[k].den
    /\ avd.pc = "loop"
    /\ 0 < avd.motion_score.num /\ avd.motion_score.num < 100 * avd.motion_score.den
    /\ SumImage(ChangedPixels(avd.against, avd.gray), 1) \in 1..24

(* C18: with fps > 0, when a stationary start is detected on a video,      *)
(* analyze_video and analyze_video_with_debug record the same start frame  *)
(* and the same end frame and return the same duration, although the       *)
(* second reads on after the first stationary end.                         *)
C18_BothEntryPointsAgree ==
    (/\ video.fps > 0
     /\ av.pc \in Finished /\ avd.pc \in Finished
     /\ av.stationary_start_frame # None \/ avd.stationary_start_frame # None)
    => (/\ av.stationary_start_frame = avd.stationary_start_frame
        /\ av.stationary_end_frame = avd.stationary_end_frame
        /\ av.pc = "returned" /\ avd.pc = "returned"
        /\ av.result = avd.result)

(* C19: on a source that opens with fps = 0, both entry points fail with   *)
(* the explicit frame-rate error before any frame is read or written, and  *)
(* neither ever divides by the zero frame rate.                            *)
C19_ZeroFrameRateRejected ==
    \A e \in Calls :
        /\ e.error # "ZeroDivisionError"
        /\ (video.openable /\ video.fps = 0 /\ e.pc # "idle" /\ e.error # "TypeError")
              => (/\ e.pc = "raised"
                  /\ e.error = "fps"
                  /\ e.reads = 0
                  /\ e.out.frames = <<>>)

====
